---- MODULE Spec2Model ----
(***************************************************************************)
(* TransactionService (src/src/transaction_service.rs): the retry loop of  *)
(* submit_transaction, send_and_confirm_transaction and the error          *)
(* classification is_retriable_error.                                      *)
(*                                                                         *)
(* Strings are sequences of one-character strings, so that the substring   *)
(* test str::contains is computed position by position.                    *)
(***************************************************************************)
EXTENDS Integers, Sequences, FiniteSets, TLC

VARIABLES
    max_retries,       \* TransactionService.max_retries (u32, set by new)
    active,            \* the submit_transaction calls that were made
    instructions,      \* argument `instructions` of each call
    pc,                \* position of each call in submit_transaction
    attempt,           \* local `attempt` of each call
    recent_blockhash,  \* local `recent_blockhash` of the current iteration
    tx,                \* local `tx` of the current iteration, signed
    fetched,           \* what get_latest_blockhash returned in the current iteration
    sent,              \* what send_transaction was given in the current iteration
    signature,         \* local `signature` of send_and_confirm_transaction
    err,               \* the last error bound by `Err(err)` at line 85
    result,            \* value returned by each call
    trace,             \* RPC calls and sleeps each call performed, in order
    cls_in,            \* the error a direct is_retriable_error evaluation is given
    cls_out,           \* its result
    client_balance,    \* what the RPC node holds: the balance of each account
    bal_rpc,           \* RPC calls and sleeps made by the get_balance calls, in order
    bal_results,       \* what each get_balance call was given and returned, in order
    wide               \* a submit_transaction run with max_retries and the
                       \* backoff kept at their machine widths (u32, u64)

vars == <<max_retries, active, instructions, pc, attempt, recent_blockhash, tx,
          fetched, sent, signature, err, result, trace, cls_in, cls_out,
          client_balance, bal_rpc, bal_results, wide>>

balVars == <<client_balance, bal_rpc, bal_results>>

----------------------------------------------------------------------------
(* Bounds *)

MaxRetries == 3
NumBlockhashes == 1
NumSignatures == 2

NumPubkeys == 2

Tasks == {1, 2}
Pubkeys == 1..NumPubkeys
Blockhashes == 1..NumBlockhashes
Signatures == 1..NumSignatures

----------------------------------------------------------------------------
(* String literals of the source *)

PatBlockhashNotFound == <<"b","l","o","c","k","h","a","s","h"," ","n","o","t"," ","f","o","u","n","d">>
PatTimeout == <<"t","i","m","e","o","u","t">>
PatSocketClosed == <<"s","o","c","k","e","t"," ","c","l","o","s","e","d">>
PatRetryRateLimit == <<"r","e","t","r","y"," ","r","a","t","e"," ","l","i","m","i","t">>
PatTooManyRequests == <<"t","o","o"," ","m","a","n","y"," ","r","e","q","u","e","s","t","s">>
PatConnectionClosed == <<"c","o","n","n","e","c","t","i","o","n"," ","c","l","o","s","e","d">>
NotConfirmedMsg == <<"T","r","a","n","s","a","c","t","i","o","n"," ","w","a","s"," ","n","o","t"," ","c","o","n","f","i","r","m","e","d">>

(* Messages the RPC transport reports in the submission runs (err.to_string()) *)
MsgInsufficientFunds == <<"i","n","s","u","f","f","i","c","i","e","n","t"," ","f","u","n","d","s"," ","f","o","r"," ","t","r","a","n","s","a","c","t","i","o","n">>
TransportMsgs == {PatTimeout, PatSocketClosed, PatConnectionClosed, MsgInsufficientFunds}

----------------------------------------------------------------------------
(* error.rs: TransactionError *)

ErrorTags == {"RpcError", "SendError", "ConfirmationError", "MaxRetriesExceeded",
              "InvalidInstruction", "InsufficientFunds", "Other"}

RpcError(msg) == [tag |-> "RpcError", msg |-> msg]
SendError_AsOther(msg) == [tag |-> "Other", msg |-> msg]

SendError(msg) == [tag |-> "SendError", msg |-> msg]
ConfirmationError(msg) == [tag |-> "ConfirmationError", msg |-> msg]
MaxRetriesExceeded == [tag |-> "MaxRetriesExceeded", msg |-> <<>>]
InvalidInstruction(msg) == [tag |-> "InvalidInstruction", msg |-> msg]

NoError == [tag |-> "None", msg |-> <<>>]
NoSignature == 0
NoBlockhash == 0

(* The instruction sequences a caller passes: none, or one transfer *)
InstructionSeqs == {<<>>, <<"transfer">>}

(* lines 78-80: Message::new, Transaction::new_unsigned, tx.sign *)
NoTx == [instructions |-> <<>>, recent_blockhash |-> NoBlockhash]
Sign(instrs, bh) == [instructions |-> instrs, recent_blockhash |-> bh]

NoInput == [tag |-> "None", pre |-> <<>>, core |-> <<>>, suf |-> <<>>]

NoResult == [kind |-> "None", sig |-> NoSignature, err |-> NoError]
Ok(sig) == [kind |-> "Ok", sig |-> sig, err |-> NoError]
Err(e) == [kind |-> "Err", sig |-> NoSignature, err |-> e]

----------------------------------------------------------------------------
(* str::contains: some window of msg equals pat *)

contains(msg, pat) ==
    \E i \in 0..(Len(msg) - Len(pat)) :
        \A j \in 1..Len(pat) : msg[i + j] = pat[j]

(* is_retriable_error, lines 126-142 *)
is_retriable_error_SameList(e) ==
    CASE e.tag = "RpcError" -> TRUE
      [] e.tag \in {"SendError", "ConfirmationError"} ->
            \/ contains(e.msg, PatBlockhashNotFound)
            \/ contains(e.msg, PatTimeout)
            \/ contains(e.msg, PatSocketClosed)
            \/ contains(e.msg, PatRetryRateLimit)
            \/ contains(e.msg, PatTooManyRequests)
      [] OTHER -> FALSE

is_retriable_error(e) ==
    CASE e.tag = "RpcError" -> TRUE
      [] e.tag = "SendError" ->
            \/ contains(e.msg, PatBlockhashNotFound)
            \/ contains(e.msg, PatTimeout)
            \/ contains(e.msg, PatSocketClosed)
            \/ contains(e.msg, PatRetryRateLimit)
            \/ contains(e.msg, PatTooManyRequests)
      [] e.tag = "ConfirmationError" ->
            \/ contains(e.msg, PatTimeout)
            \/ contains(e.msg, PatConnectionClosed)
      [] OTHER -> FALSE

----------------------------------------------------------------------------
(* Durations, in milliseconds *)

BaseDelayMs == 500

blockhash_query_interval_Short == BaseDelayMs

blockhash_query_interval == 1000

RECURSIVE pow(_, _)
pow(base, exp) == IF exp = 0 THEN 1 ELSE base * pow(base, exp - 1)

(* line 63: 500 * 2u64.pow(attempt - 2).  The product stays below 2^64    *)
(* for attempt <= 57, which covers every attempt the runs below reach.     *)
backoff_ExponentOffByOne(a) == BaseDelayMs * pow(2, a - 1)

backoff_Linear(a) == BaseDelayMs * (a - 1)

backoff(a) == BaseDelayMs * pow(2, a - 2)

----------------------------------------------------------------------------
(* Events of the trace: what was done, the duration of a sleep or the     *)
(* message of a failed call, and the attempt index it was done under      *)

Event(kind, payload, a) == [kind |-> kind, val |-> payload, attempt |-> a]

Record(t, ev) == trace' = [trace EXCEPT ![t] = Append(@, ev)]

----------------------------------------------------------------------------
(* No get_balance call was made, no run at machine widths is followed *)
NoBalanceCalls ==
    /\ client_balance = [pk \in Pubkeys |-> 0]
    /\ bal_rpc = <<>>
    /\ bal_results = <<>>

NoWide == [build |-> "none", max_retries |-> <<0, 0>>, pc |-> "idle", attempt |-> 0,
           backoff |-> <<0, 0, 0, 0>>, previous |-> <<0, 0, 0, 0>>, sleeps |-> 0,
           overflow |-> "none", fetches |-> 0, result |-> "none"]

(* State after TransactionService::new and the entry of submit_transaction *)

InitRun(tasks) ==
    /\ max_retries \in 0..MaxRetries
    /\ active = tasks
    /\ instructions \in [Tasks -> InstructionSeqs]
    /\ \A t \in Tasks \ tasks : instructions[t] = <<>>
    /\ pc = [t \in Tasks |-> IF t \in tasks THEN "loop" ELSE "idle"]
    /\ attempt = [t \in Tasks |-> 0]
    /\ recent_blockhash = [t \in Tasks |-> NoBlockhash]
    /\ tx = [t \in Tasks |-> NoTx]
    /\ fetched = [t \in Tasks |-> NoBlockhash]
    /\ sent = [t \in Tasks |-> NoTx]
    /\ signature = [t \in Tasks |-> NoSignature]
    /\ err = [t \in Tasks |-> NoError]
    /\ result = [t \in Tasks |-> NoResult]
    /\ trace = [t \in Tasks |-> <<>>]
    /\ cls_in = NoInput
    /\ cls_out = "unset"
    /\ NoBalanceCalls
    /\ wide = NoWide

Init == InitRun({1})

(* line 52: attempt > self.max_retries + 1.  The u32 sum does not wrap for *)
(* max_retries < 2^32 - 1, which covers every max_retries drawn by Init.   *)
RetriesExceeded_OffByOne(a) == a > max_retries

RetriesExceeded_OneTooMany(a) == a > max_retries + 2

RetriesExceeded(a) == a > max_retries + 1

(* lines 48-56: top of the loop *)
LoopTop_NoReturn(t) ==
    /\ pc[t] = "loop"
    /\ IF RetriesExceeded(attempt[t] + 1)
         THEN UNCHANGED <<attempt, pc, result>>
         ELSE /\ attempt' = [attempt EXCEPT ![t] = @ + 1]
              /\ pc' = [pc EXCEPT ![t] = IF attempt'[t] > 1 THEN "backoff" ELSE "fetch"]
              /\ UNCHANGED result
    /\ fetched' = [fetched EXCEPT ![t] = NoBlockhash]
    /\ sent' = [sent EXCEPT ![t] = NoTx]
    /\ UNCHANGED <<max_retries, active, instructions, recent_blockhash, tx, signature,
                   err, trace, cls_in, cls_out, balVars, wide>>

LoopTop_SharedAttempt(t) ==
    /\ pc[t] = "loop"
    /\ attempt' = [u \in Tasks |-> IF u \in active THEN attempt[u] + 1 ELSE attempt[u]]
    /\ IF RetriesExceeded(attempt'[t])
         THEN /\ pc' = [pc EXCEPT ![t] = "done"]
              /\ result' = [result EXCEPT ![t] = Err(MaxRetriesExceeded)]
         ELSE /\ pc' = [pc EXCEPT ![t] = IF attempt'[t] > 1 THEN "backoff" ELSE "fetch"]
              /\ UNCHANGED result
    /\ fetched' = [fetched EXCEPT ![t] = NoBlockhash]
    /\ sent' = [sent EXCEPT ![t] = NoTx]
    /\ UNCHANGED <<max_retries, active, instructions, recent_blockhash, tx, signature,
                   err, trace, cls_in, cls_out, balVars, wide>>

LoopTop(t) ==
    /\ pc[t] = "loop"
    /\ attempt' = [attempt EXCEPT ![t] = @ + 1]
    /\ IF RetriesExceeded(attempt'[t])
         THEN /\ pc' = [pc EXCEPT ![t] = "done"]
              /\ result' = [result EXCEPT ![t] = Err(MaxRetriesExceeded)]
         ELSE /\ pc' = [pc EXCEPT ![t] = IF attempt'[t] > 1 THEN "backoff" ELSE "fetch"]
              /\ UNCHANGED result
    /\ fetched' = [fetched EXCEPT ![t] = NoBlockhash]
    /\ sent' = [sent EXCEPT ![t] = NoTx]
    /\ UNCHANGED <<max_retries, active, instructions, recent_blockhash, tx, signature,
                   err, trace, cls_in, cls_out, balVars, wide>>

(* lines 62-64: exponential backoff *)
Backoff(t) ==
    /\ pc[t] = "backoff"
    /\ Record(t, Event("backoff", backoff(attempt[t]), attempt[t]))
    /\ pc' = [pc EXCEPT ![t] = "fetch"]
    /\ UNCHANGED <<max_retries, active, instructions, attempt, recent_blockhash, tx,
                   fetched, sent, signature, err, result, cls_in, cls_out, balVars, wide>>

(* lines 68-80: get_latest_blockhash; on success build and sign the transaction *)
GetLatestBlockhash_Propagate(t) ==
    /\ pc[t] = "fetch"
    /\ \/ \E bh \in Blockhashes :
            /\ recent_blockhash' = [recent_blockhash EXCEPT ![t] = bh]
            /\ fetched' = [fetched EXCEPT ![t] = bh]
            /\ tx' = [tx EXCEPT ![t] = Sign(instructions[t], bh)]
            /\ Record(t, Event("fetch_ok", 0, attempt[t]))
            /\ pc' = [pc EXCEPT ![t] = "send"]
            /\ UNCHANGED result
       \/ /\ Record(t, Event("fetch_err", 0, attempt[t]))
          /\ pc' = [pc EXCEPT ![t] = "done"]
          /\ result' = [result EXCEPT ![t] = Err(RpcError(PatTimeout))]
          /\ UNCHANGED <<recent_blockhash, tx, fetched>>
    /\ UNCHANGED <<max_retries, active, instructions, attempt, sent, signature, err,
                   cls_in, cls_out, balVars, wide>>

GetLatestBlockhash_SendAnyway(t) ==
    /\ pc[t] = "fetch"
    /\ \/ \E bh \in Blockhashes :
            /\ recent_blockhash' = [recent_blockhash EXCEPT ![t] = bh]
            /\ fetched' = [fetched EXCEPT ![t] = bh]
            /\ tx' = [tx EXCEPT ![t] = Sign(instructions[t], bh)]
            /\ Record(t, Event("fetch_ok", 0, attempt[t]))
            /\ pc' = [pc EXCEPT ![t] = "send"]
       \/ /\ Record(t, Event("fetch_err", 0, attempt[t]))
          /\ tx' = [tx EXCEPT ![t] = Sign(instructions[t], NoBlockhash)]
          /\ pc' = [pc EXCEPT ![t] = "send"]
          /\ UNCHANGED <<recent_blockhash, fetched>>
    /\ UNCHANGED <<max_retries, active, instructions, attempt, sent, signature, err,
                   result, cls_in, cls_out, balVars, wide>>

GetLatestBlockhash(t) ==
    /\ pc[t] = "fetch"
    /\ \/ \E bh \in Blockhashes :
            /\ recent_blockhash' = [recent_blockhash EXCEPT ![t] = bh]
            /\ fetched' = [fetched EXCEPT ![t] = bh]
            /\ tx' = [tx EXCEPT ![t] = Sign(instructions[t], bh)]
            /\ Record(t, Event("fetch_ok", 0, attempt[t]))
            /\ pc' = [pc EXCEPT ![t] = "send"]
       \/ /\ Record(t, Event("fetch_err", 0, attempt[t]))
          /\ pc' = [pc EXCEPT ![t] = "query_sleep"]
          /\ UNCHANGED <<recent_blockhash, tx, fetched>>
    /\ UNCHANGED <<max_retries, active, instructions, attempt, sent, signature, err,
                   result, cls_in, cls_out, balVars, wide>>

(* lines 72-73: sleep(blockhash_query_interval); continue *)
BlockhashQuerySleep_RetryFetch(t) ==
    /\ pc[t] = "query_sleep"
    /\ Record(t, Event("query_sleep", blockhash_query_interval, attempt[t]))
    /\ pc' = [pc EXCEPT ![t] = "fetch"]
    /\ UNCHANGED <<max_retries, active, instructions, attempt, recent_blockhash, tx,
                   fetched, sent, signature, err, result, cls_in, cls_out, balVars, wide>>

BlockhashQuerySleep(t) ==
    /\ pc[t] = "query_sleep"
    /\ Record(t, Event("query_sleep", blockhash_query_interval, attempt[t]))
    /\ pc' = [pc EXCEPT ![t] = "loop"]
    /\ UNCHANGED <<max_retries, active, instructions, attempt, recent_blockhash, tx,
                   fetched, sent, signature, err, result, cls_in, cls_out, balVars, wide>>

(* lines 85-92: the Err arm of the match on send_and_confirm_transaction;  *)
(* the transaction, its blockhash and the signature of the failed attempt  *)
(* go out of scope                                                         *)
OnError_AlwaysRetry(t, e) ==
    /\ err' = [err EXCEPT ![t] = e]
    /\ signature' = [signature EXCEPT ![t] = NoSignature]
    /\ recent_blockhash' = [recent_blockhash EXCEPT ![t] = NoBlockhash]
    /\ tx' = [tx EXCEPT ![t] = NoTx]
    /\ pc' = [pc EXCEPT ![t] = "loop"]
    /\ UNCHANGED result

OnError_AlwaysReturn(t, e) ==
    /\ err' = [err EXCEPT ![t] = e]
    /\ signature' = [signature EXCEPT ![t] = NoSignature]
    /\ recent_blockhash' = [recent_blockhash EXCEPT ![t] = NoBlockhash]
    /\ tx' = [tx EXCEPT ![t] = NoTx]
    /\ pc' = [pc EXCEPT ![t] = "done"]
    /\ result' = [result EXCEPT ![t] = Err(e)]

OnError(t, e) ==
    /\ err' = [err EXCEPT ![t] = e]
    /\ signature' = [signature EXCEPT ![t] = NoSignature]
    /\ recent_blockhash' = [recent_blockhash EXCEPT ![t] = NoBlockhash]
    /\ tx' = [tx EXCEPT ![t] = NoTx]
    /\ IF ~is_retriable_error(e)
         THEN /\ pc' = [pc EXCEPT ![t] = "done"]
              /\ result' = [result EXCEPT ![t] = Err(e)]
         ELSE /\ pc' = [pc EXCEPT ![t] = "loop"]
              /\ UNCHANGED result

(* lines 83, 102-105: send_transaction *)
SendTransaction_ClassifyEmpty(t) ==
    /\ pc[t] = "send"
    /\ \/ \E sig \in Signatures :
            /\ signature' = [signature EXCEPT ![t] = sig]
            /\ Record(t, Event("send_ok", 0, attempt[t]))
            /\ pc' = [pc EXCEPT ![t] = "confirm"]
            /\ UNCHANGED <<err, result, recent_blockhash, tx>>
       \/ \E m \in TransportMsgs :
            /\ Record(t, Event("send_err", m, attempt[t]))
            /\ OnError(t, IF instructions[t] = <<>> THEN InvalidInstruction(m)
                                                   ELSE SendError(m))
    /\ sent' = [sent EXCEPT ![t] = tx[t]]
    /\ UNCHANGED <<max_retries, active, instructions, attempt, fetched, cls_in, cls_out, balVars, wide>>

SendTransaction(t) ==
    /\ pc[t] = "send"
    /\ \/ \E sig \in Signatures :
            /\ signature' = [signature EXCEPT ![t] = sig]
            /\ Record(t, Event("send_ok", 0, attempt[t]))
            /\ pc' = [pc EXCEPT ![t] = "confirm"]
            /\ UNCHANGED <<err, result, recent_blockhash, tx>>
       \/ \E m \in TransportMsgs :
            /\ Record(t, Event("send_err", m, attempt[t]))
            /\ OnError(t, SendError(m))
    /\ sent' = [sent EXCEPT ![t] = tx[t]]
    /\ UNCHANGED <<max_retries, active, instructions, attempt, fetched, cls_in, cls_out, balVars, wide>>

(* lines 84, 108-122: confirm_transaction_with_commitment *)
ConfirmTransaction_IgnoreValue(t) ==
    /\ pc[t] = "confirm"
    /\ \/ /\ Record(t, Event("confirm_true", 0, attempt[t]))
          /\ pc' = [pc EXCEPT ![t] = "done"]
          /\ result' = [result EXCEPT ![t] = Ok(signature[t])]
          /\ UNCHANGED <<err, signature, recent_blockhash, tx>>
       \/ /\ Record(t, Event("confirm_false", 0, attempt[t]))
          /\ pc' = [pc EXCEPT ![t] = "done"]
          /\ result' = [result EXCEPT ![t] = Ok(signature[t])]
          /\ UNCHANGED <<err, signature, recent_blockhash, tx>>
       \/ \E m \in TransportMsgs :
            /\ Record(t, Event("confirm_err", m, attempt[t]))
            /\ OnError(t, ConfirmationError(m))
    /\ UNCHANGED <<max_retries, active, instructions, attempt, fetched, sent,
                   cls_in, cls_out, balVars, wide>>

ConfirmTransaction_RetryNotConfirmed(t) ==
    /\ pc[t] = "confirm"
    /\ \/ /\ Record(t, Event("confirm_true", 0, attempt[t]))
          /\ pc' = [pc EXCEPT ![t] = "done"]
          /\ result' = [result EXCEPT ![t] = Ok(signature[t])]
          /\ UNCHANGED <<err, signature, recent_blockhash, tx>>
       \/ /\ Record(t, Event("confirm_false", 0, attempt[t]))
          /\ OnError_AlwaysRetry(t, ConfirmationError(NotConfirmedMsg))
       \/ \E m \in TransportMsgs :
            /\ Record(t, Event("confirm_err", m, attempt[t]))
            /\ OnError(t, ConfirmationError(m))
    /\ UNCHANGED <<max_retries, active, instructions, attempt, fetched, sent,
                   cls_in, cls_out, balVars, wide>>

ConfirmTransaction(t) ==
    /\ pc[t] = "confirm"
    /\ \/ /\ Record(t, Event("confirm_true", 0, attempt[t]))
          /\ pc' = [pc EXCEPT ![t] = "done"]
          /\ result' = [result EXCEPT ![t] = Ok(signature[t])]
          /\ UNCHANGED <<err, signature, recent_blockhash, tx>>
       \/ /\ Record(t, Event("confirm_false", 0, attempt[t]))
          /\ OnError(t, ConfirmationError(NotConfirmedMsg))
       \/ \E m \in TransportMsgs :
            /\ Record(t, Event("confirm_err", m, attempt[t]))
            /\ OnError(t, ConfirmationError(m))
    /\ UNCHANGED <<max_retries, active, instructions, attempt, fetched, sent,
                   cls_in, cls_out, balVars, wide>>

Next ==
    \/ \E t \in Tasks : LoopTop(t)
    \/ \E t \in Tasks : Backoff(t)
    \/ \E t \in Tasks : GetLatestBlockhash(t)
    \/ \E t \in Tasks : BlockhashQuerySleep(t)
    \/ \E t \in Tasks : SendTransaction(t)
    \/ \E t \in Tasks : ConfirmTransaction(t)

Spec == Init /\ [][Next]_vars

(* Every RPC call and every sleep of a running call returns *)
TaskStep(t) ==
    \/ LoopTop(t)
    \/ Backoff(t)
    \/ GetLatestBlockhash(t)
    \/ BlockhashQuerySleep(t)
    \/ SendTransaction(t)
    \/ ConfirmTransaction(t)

LiveSpec == Spec /\ \A t \in Tasks : WF_vars(TaskStep(t))

(* Two submit_transaction calls on one TransactionService (&self, lines    *)
(* 39-43), their steps interleaved at the await points.                    *)
MaxRetriesConc == 1

InitConc ==
    /\ InitRun(Tasks)
    /\ max_retries <= MaxRetriesConc
    /\ instructions = [t \in Tasks |-> <<"transfer">>]

SpecConc == InitConc /\ [][Next]_vars

----------------------------------------------------------------------------
(* is_retriable_error evaluated on its own.  The message of the error is   *)
(* pre \o core \o suf; the parts are kept so that what the message was     *)
(* built from is known without searching it.                               *)

MsgTimeoutUpper == <<"T","i","m","e","o","u","t">>
MsgTimeOut == <<"t","i","m","e"," ","o","u","t">>
MsgSocketClose == <<"s","o","c","k","e","t"," ","c","l","o","s","e">>
MsgConnectionClose == <<"c","o","n","n","e","c","t","i","o","n"," ","c","l","o","s","e">>
MsgTooManyRequest == <<"t","o","o"," ","m","a","n","y"," ","r","e","q","u","e","s","t">>
MsgRetryRateLimi == <<"r","e","t","r","y"," ","r","a","t","e"," ","l","i","m","i">>
MsgBlockhashNotfound == <<"b","l","o","c","k","h","a","s","h"," ","n","o","t","f","o","u","n","d">>
PrefixTransport == <<"R","P","C"," ","r","e","s","p","o","n","s","e"," ","e","r","r","o","r",":"," ">>
SuffixPleaseRetry == <<","," ","p","l","e","a","s","e"," ","r","e","t","r","y">>

Cores == {PatBlockhashNotFound, PatTimeout, PatSocketClosed, PatRetryRateLimit,
          PatTooManyRequests, PatConnectionClosed, NotConfirmedMsg,
          MsgInsufficientFunds, MsgTimeoutUpper, MsgTimeOut, MsgSocketClose,
          MsgConnectionClose, MsgTooManyRequest, MsgRetryRateLimi,
          MsgBlockhashNotfound, <<>>}
Prefixes == {<<>>, PrefixTransport}
Suffixes == {<<>>, SuffixPleaseRetry}

ClsError == [tag |-> cls_in.tag, msg |-> cls_in.pre \o cls_in.core \o cls_in.suf]

InitClassify ==
    /\ max_retries \in 0..MaxRetries
    /\ active = {}
    /\ instructions = [t \in Tasks |-> <<>>]
    /\ pc = [t \in Tasks |-> "idle"]
    /\ attempt = [t \in Tasks |-> 0]
    /\ recent_blockhash = [t \in Tasks |-> NoBlockhash]
    /\ tx = [t \in Tasks |-> NoTx]
    /\ fetched = [t \in Tasks |-> NoBlockhash]
    /\ sent = [t \in Tasks |-> NoTx]
    /\ signature = [t \in Tasks |-> NoSignature]
    /\ err = [t \in Tasks |-> NoError]
    /\ result = [t \in Tasks |-> NoResult]
    /\ trace = [t \in Tasks |-> <<>>]
    /\ cls_in \in [tag : ErrorTags, pre : Prefixes, core : Cores, suf : Suffixes]
    /\ cls_out = "unset"
    /\ NoBalanceCalls
    /\ wide = NoWide

Classify ==
    /\ cls_out = "unset"
    /\ cls_out' = IF is_retriable_error(ClsError) THEN "retriable" ELSE "fatal"
    /\ UNCHANGED <<max_retries, active, instructions, pc, attempt, recent_blockhash, tx,
                   fetched, sent, signature,
                   err, result, trace, cls_in, balVars, wide>>

NextClassify == Classify

SpecClassify == InitClassify /\ [][NextClassify]_vars

----------------------------------------------------------------------------
(* get_balance, lines 31-36.  The function has no suspension point: a call *)
(* is one step.                                                            *)

MaxBalanceCalls == 2
Balances == {0, 999999, 1000000}

(* No submit_transaction call and no direct classification is followed *)
NoRun ==
    /\ active = {}
    /\ instructions = [t \in Tasks |-> <<>>]
    /\ pc = [t \in Tasks |-> "idle"]
    /\ attempt = [t \in Tasks |-> 0]
    /\ recent_blockhash = [t \in Tasks |-> NoBlockhash]
    /\ tx = [t \in Tasks |-> NoTx]
    /\ fetched = [t \in Tasks |-> NoBlockhash]
    /\ sent = [t \in Tasks |-> NoTx]
    /\ signature = [t \in Tasks |-> NoSignature]
    /\ err = [t \in Tasks |-> NoError]
    /\ result = [t \in Tasks |-> NoResult]
    /\ trace = [t \in Tasks |-> <<>>]
    /\ cls_in = NoInput
    /\ cls_out = "unset"

OkBalance(b) == [kind |-> "Ok", value |-> b, err |-> NoError]
ErrBalance(e) == [kind |-> "Err", value |-> 0, err |-> e]

(* What the RPC client answers to get_balance(pubkey) *)
RpcOk(b) == [ok |-> TRUE, value |-> b, msg |-> <<>>]
RpcErr(m) == [ok |-> FALSE, value |-> 0, msg |-> m]
RpcGetBalance(pubkey) ==
    {RpcOk(client_balance[pubkey])} \cup {RpcErr(m) : m \in TransportMsgs}

RpcCall(pubkey, answer) == [call |-> "get_balance", pubkey |-> pubkey, answer |-> answer]

InitBalance ==
    /\ max_retries \in 0..MaxRetries
    /\ NoRun
    /\ client_balance \in [Pubkeys -> Balances]
    /\ bal_rpc = <<>>
    /\ bal_results = <<>>
    /\ wide = NoWide

(* lines 32-35 *)
GetBalance_RetryOnce(pubkey) ==
    /\ Len(bal_results) < MaxBalanceCalls
    /\ \E first \in RpcGetBalance(pubkey), second \in RpcGetBalance(pubkey) :
          IF first.ok
            THEN /\ bal_rpc' = Append(bal_rpc, RpcCall(pubkey, first))
                 /\ bal_results' = Append(bal_results,
                        [pubkey |-> pubkey, result |-> OkBalance(first.value)])
            ELSE /\ bal_rpc' = bal_rpc \o <<RpcCall(pubkey, first), RpcCall(pubkey, second)>>
                 /\ bal_results' = Append(bal_results,
                        [pubkey |-> pubkey,
                         result |-> IF second.ok THEN OkBalance(second.value)
                                                 ELSE ErrBalance(RpcError(second.msg))])
    /\ UNCHANGED <<max_retries, active, instructions, pc, attempt, recent_blockhash, tx,
                   fetched, sent, signature, err, result, trace, cls_in, cls_out,
                   client_balance, wide>>

GetBalance(pubkey) ==
    /\ Len(bal_results) < MaxBalanceCalls
    /\ \E answer \in RpcGetBalance(pubkey) :
          /\ bal_rpc' = Append(bal_rpc, RpcCall(pubkey, answer))
          /\ bal_results' = Append(bal_results,
                [pubkey |-> pubkey,
                 result |-> IF answer.ok THEN OkBalance(answer.value)
                                         ELSE ErrBalance(RpcError(answer.msg))])
    /\ UNCHANGED <<max_retries, active, instructions, pc, attempt, recent_blockhash, tx,
                   fetched, sent, signature, err, result, trace, cls_in, cls_out,
                   client_balance, wide>>

NextBalance == \E pubkey \in Pubkeys : GetBalance(pubkey)

SpecBalance == InitBalance /\ [][NextBalance]_vars

----------------------------------------------------------------------------
(* submit_transaction at the width of its integers.  max_retries and       *)
(* attempt are u32 (line 18, line 52), the backoff in milliseconds is u64  *)
(* (line 63).  A u32 is written as two 16-bit limbs and a u64 as four,     *)
(* least significant first.  On overflow a build with overflow checks      *)
(* panics and a build without them wraps.                                  *)

MaxWideAttempt == 66

Limb == 2^16
Builds == {"debug", "release"}

ToU32(n) == <<n % Limb, n \div Limb>>
U32Max == <<Limb - 1, Limb - 1>>

(* x + 1 in u32 *)
AddOneU32(x) ==
    IF x[1] < Limb - 1 THEN [value |-> <<x[1] + 1, x[2]>>, overflow |-> FALSE]
    ELSE IF x[2] < Limb - 1 THEN [value |-> <<0, x[2] + 1>>, overflow |-> FALSE]
    ELSE [value |-> <<0, 0>>, overflow |-> TRUE]

GreaterU32(x, y) == x[2] > y[2] \/ (x[2] = y[2] /\ x[1] > y[1])

(* c * x in u64, for c < 2^15 *)
MulU64(c, x) ==
    LET p1 == c * x[1]
        p2 == c * x[2] + (p1 \div Limb)
        p3 == c * x[3] + (p2 \div Limb)
        p4 == c * x[4] + (p3 \div Limb)
    IN  [value |-> <<p1 % Limb, p2 % Limb, p3 % Limb, p4 % Limb>>,
         overflow |-> p4 \div Limb > 0]

(* 2u64.pow(exp): bit exp of the result is set, and a bit past the 64th  *)
(* is lost                                                                *)
PowLimb(exp, i) == IF exp \div 16 = i - 1 THEN 2^(exp % 16) ELSE 0
PowTwoU64(exp) ==
    [value |-> <<PowLimb(exp, 1), PowLimb(exp, 2), PowLimb(exp, 3), PowLimb(exp, 4)>>,
     overflow |-> exp >= 64]

(* 500 * 2u64.pow(attempt - 2), line 63 *)
BackoffU64(a) ==
    LET power == PowTwoU64(a - 2)
        prod == MulU64(BaseDelayMs, power.value)
    IN  [value |-> prod.value, overflow |-> power.overflow \/ prod.overflow]

(* the configurations followed: small ones, the ones around the first     *)
(* overflowing backoff, and the largest two                               *)
WideMaxRetries ==
    {ToU32(0), ToU32(1), ToU32(2), ToU32(56), ToU32(57), ToU32(64),
     <<Limb - 2, Limb - 1>>, U32Max}

InitWide ==
    /\ max_retries = 0
    /\ NoRun
    /\ NoBalanceCalls
    /\ \E b \in Builds, r \in WideMaxRetries :
          wide = [NoWide EXCEPT !.build = b, !.max_retries = r, !.pc = "loop"]

WideUnchanged ==
    UNCHANGED <<max_retries, active, instructions, pc, attempt, recent_blockhash, tx,
                fetched, sent, signature, err, result, trace, cls_in, cls_out, balVars>>

(* lines 49-54 *)
WideLoopTop ==
    /\ wide.pc = "loop"
    /\ wide.attempt < MaxWideAttempt
    /\ LET a == wide.attempt + 1
           bound == AddOneU32(wide.max_retries)
       IN  IF bound.overflow /\ wide.build = "debug"
             THEN wide' = [wide EXCEPT !.attempt = a, !.overflow = "u32", !.pc = "panicked"]
             ELSE wide' = [wide EXCEPT
                      !.attempt = a,
                      !.overflow = IF bound.overflow THEN "u32" ELSE @,
                      !.result = IF GreaterU32(ToU32(a), bound.value)
                                   THEN "MaxRetriesExceeded" ELSE @,
                      !.pc = IF GreaterU32(ToU32(a), bound.value) THEN "done"
                             ELSE IF a > 1 THEN "backoff" ELSE "fetch"]
    /\ WideUnchanged

(* lines 56-65 *)
WideBackoff ==
    /\ wide.pc = "backoff"
    /\ LET b == BackoffU64(wide.attempt)
       IN  IF b.overflow /\ wide.build = "debug"
             THEN wide' = [wide EXCEPT !.overflow = "u64", !.pc = "panicked"]
             ELSE wide' = [wide EXCEPT
                      !.previous = wide.backoff,
                      !.backoff = b.value,
                      !.sleeps = @ + 1,
                      !.overflow = IF b.overflow THEN "u64" ELSE @,
                      !.pc = "fetch"]
    /\ WideUnchanged

(* lines 68-93: the fetch and what follows it in the iteration *)
WideAttempt ==
    /\ wide.pc = "fetch"
    /\ \E outcome \in {"retry", "Ok", "Err"} :
          wide' = [wide EXCEPT
              !.fetches = @ + 1,
              !.result = IF outcome = "retry" THEN @ ELSE outcome,
              !.pc = IF outcome = "retry" THEN "loop" ELSE "done"]
    /\ WideUnchanged

NextWide == WideLoopTop \/ WideBackoff \/ WideAttempt

SpecWide == InitWide /\ [][NextWide]_vars

----------------------------------------------------------------------------
(* What a call has done so far, read off its trace *)

Indices(t) == 1..Len(trace[t])
Count(t, kinds) == Cardinality({i \in Indices(t) : trace[t][i].kind \in kinds})

Sends(t) == Count(t, {"send_ok", "send_err"})
Fetches(t) == Count(t, {"fetch_ok", "fetch_err"})
FetchFailures(t) == Count(t, {"fetch_err"})
BackoffSleeps(t) == Count(t, {"backoff"})
QuerySleeps(t) == Count(t, {"query_sleep"})

(* The durations of the backoff sleeps, in the order they were performed *)
BackoffDurations(t) ==
    LET F[i \in 0..Len(trace[t])] ==
            IF i = 0 THEN <<>>
            ELSE IF trace[t][i].kind = "backoff"
                   THEN Append(F[i - 1], trace[t][i].val)
                   ELSE F[i - 1]
    IN F[Len(trace[t])]

(* The classification table of the specification, section 4.1b *)
SendRetriablePatterns == {PatBlockhashNotFound, PatTimeout, PatSocketClosed,
                          PatRetryRateLimit, PatTooManyRequests}
ConfirmRetriablePatterns == {PatTimeout, PatConnectionClosed}

TableRetriable(e) ==
    \/ e.tag = "RpcError"
    \/ e.tag = "SendError" /\ \E p \in SendRetriablePatterns : contains(e.msg, p)
    \/ e.tag = "ConfirmationError" /\ \E p \in ConfirmRetriablePatterns : contains(e.msg, p)

(* The error that the failure event ev stands for *)
IsFailure(ev) == ev.kind \in {"send_err", "confirm_err", "confirm_false"}
ErrorOf(ev) ==
    CASE ev.kind = "send_err" -> SendError(ev.val)
      [] ev.kind = "confirm_err" -> ConfirmationError(ev.val)
      [] ev.kind = "confirm_false" -> ConfirmationError(NotConfirmedMsg)
      [] OTHER -> NoError

(* Every fetch so far succeeded and every send-and-confirm so far failed   *)
(* with an error the table calls retriable                                 *)
OnlyRetriableFailures(t) ==
    \A i \in Indices(t) :
        /\ trace[t][i].kind \notin {"fetch_err", "confirm_true"}
        /\ IsFailure(trace[t][i]) => TableRetriable(ErrorOf(trace[t][i]))

----------------------------------------------------------------------------
(* C1: in a run where every blockhash fetch succeeds and every             *)
(* send-and-confirm fails with a retriable error, at most max_retries + 1  *)
(* sends, max_retries + 1 fetches and max_retries backoff sleeps are ever   *)
(* performed; after the (max_retries + 1)-th failure the run is at the top  *)
(* of the loop on its way out or has returned, and when it has returned it  *)
(* has made exactly max_retries + 1 sends and max_retries backoff sleeps    *)
(* and its result is MaxRetriesExceeded.                                    *)
C1_ExhaustedAfterRPlus1Sends ==
    \A t \in active :
        OnlyRetriableFailures(t) =>
            /\ Sends(t) <= max_retries + 1
            /\ Fetches(t) <= max_retries + 1
            /\ BackoffSleeps(t) <= max_retries
            /\ QuerySleeps(t) = 0
            /\ (Sends(t) = max_retries + 1 /\ IsFailure(trace[t][Len(trace[t])]))
                    => pc[t] \in {"loop", "done"}
            /\ pc[t] = "done" =>
                    /\ Sends(t) = max_retries + 1
                    /\ BackoffSleeps(t) = max_retries
                    /\ IsFailure(trace[t][Len(trace[t])])
                    /\ result[t] = Err(MaxRetriesExceeded)

C1_Witness ==
    \E t \in active :
        /\ OnlyRetriableFailures(t)
        /\ max_retries >= 2
        /\ pc[t] = "done"
        /\ Sends(t) = max_retries + 1
        /\ result[t] = Err(MaxRetriesExceeded)

(* C2: whatever the RPC calls return, a run never makes more than          *)
(* max_retries + 1 sends and its attempt counter never exceeds             *)
(* max_retries + 2.                                                        *)
C2_AttemptsBounded ==
    \A t \in active :
        /\ Sends(t) <= max_retries + 1
        /\ attempt[t] <= max_retries + 2

C2_Witness ==
    \E t \in active :
        /\ Sends(t) = max_retries + 1
        /\ attempt[t] = max_retries + 2
        /\ FetchFailures(t) = 0
        /\ \E i \in Indices(t) : trace[t][i].kind = "send_ok"

(* C3: a send-and-confirm failure whose error the table calls non-retriable *)
(* is the last thing the run does: the run has returned, its result is      *)
(* exactly that error, and no sleep, fetch or send follows it in the trace, *)
(* however many attempts remain.                                            *)
C3_NonRetriableReturnsAtOnce ==
    \A t \in active : \A i \in Indices(t) :
        (IsFailure(trace[t][i]) /\ ~TableRetriable(ErrorOf(trace[t][i]))) =>
            /\ i = Len(trace[t])
            /\ pc[t] = "done"
            /\ result[t] = Err(ErrorOf(trace[t][i]))

C3_Witness ==
    \E t \in active :
        /\ Len(trace[t]) > 0
        /\ trace[t][Len(trace[t])].kind = "send_err"
        /\ ~TableRetriable(ErrorOf(trace[t][Len(trace[t])]))
        /\ attempt[t] = 2
        /\ max_retries >= 2
        /\ result[t] = Err(SendError(PatConnectionClosed))

(* C4: when every RPC call and every sleep returns, every run ends: from  *)
(* some point on each call has returned and holds one outcome, Ok with a   *)
(* signature or Err with one classified error; and an outcome, once         *)
(* produced, is never replaced.                                             *)
HasOneOutcome(t) ==
    \/ result[t].kind = "Ok" /\ result[t].sig \in Signatures /\ result[t].err = NoError
    \/ result[t].kind = "Err" /\ result[t].err.tag \in ErrorTags /\ result[t].sig = NoSignature

C4_TerminatesWithOneOutcome ==
    /\ <>[](\A t \in active : pc[t] = "done" /\ HasOneOutcome(t))
    /\ [][\A t \in active : result[t] # NoResult => result'[t] = result[t]]_vars
    /\ [](\A t \in active : (pc[t] = "done") <=> (result[t] # NoResult))

C4_Witness ==
    \E t \in active :
        /\ pc[t] = "done"
        /\ HasOneOutcome(t)
        /\ FetchFailures(t) >= 1
        /\ Sends(t) >= 2
        /\ result[t].kind = "Ok"

(* The fetch that follows position i of the trace, 0 when there is none *)
IsFetch(ev) == ev.kind \in {"fetch_ok", "fetch_err"}
NextFetch(t, i) ==
    LET later == {j \in Indices(t) : j > i /\ IsFetch(trace[t][j])}
    IN IF later = {} THEN 0 ELSE CHOOSE j \in later : \A k \in later : j <= k

(* C5 as stated: a failed blockhash fetch leaves the attempt counter       *)
(* unchanged, the fetch that retries it runs under the same attempt index,  *)
(* and fetch failures use up none of the max_retries + 1 attempts (the      *)
(* retried fetch is made under the index of the failed one).                 *)
C5_Original_FetchFailureKeepsAttempt ==
    \A t \in active : \A i \in Indices(t) :
        (trace[t][i].kind = "fetch_err" /\ NextFetch(t, i) # 0) =>
            trace[t][NextFetch(t, i)].attempt = trace[t][i].attempt

(* C5 amended: a failed blockhash fetch does not change the attempt        *)
(* counter by itself (the 1000ms sleep runs under the same index), but the  *)
(* `continue` goes through the top of the loop, so the fetch that retries   *)
(* it runs under the next attempt index: every failed fetch uses up one of  *)
(* the max_retries + 1 attempts, and sends plus failed fetches never        *)
(* exceed max_retries + 1.                                                  *)
C5_FetchFailureConsumesAttempt ==
    \A t \in active :
        /\ Sends(t) + FetchFailures(t) <= max_retries + 1
        /\ \A i \in Indices(t) :
              trace[t][i].kind = "fetch_err" =>
                /\ i < Len(trace[t]) =>
                      /\ trace[t][i + 1].kind = "query_sleep"
                      /\ trace[t][i + 1].attempt = trace[t][i].attempt
                /\ NextFetch(t, i) # 0 =>
                      trace[t][NextFetch(t, i)].attempt = trace[t][i].attempt + 1

C5_Witness ==
    \E t \in active : \E i \in Indices(t) :
        /\ trace[t][i].kind = "fetch_err"
        /\ NextFetch(t, i) # 0
        /\ trace[t][NextFetch(t, i)].attempt = 2
        /\ FetchFailures(t) >= 2
        /\ Sends(t) + FetchFailures(t) = max_retries + 1
        /\ Sends(t) >= 1

(* Every blockhash fetch the run has made failed *)
EveryFetchFailed(t) == Fetches(t) >= 1 /\ FetchFailures(t) = Fetches(t)

(* C6 as stated: when every blockhash fetch fails the run never returns    *)
(* (so never with MaxRetriesExceeded) and never sends.                      *)
C6_Original_FetchRetriedForever ==
    \A t \in active :
        EveryFetchFailed(t) =>
            /\ pc[t] # "done"
            /\ result[t] = NoResult
            /\ Sends(t) = 0

(* C6 amended: when every blockhash fetch fails the run never sends, makes *)
(* one fetch per attempt, at most max_retries + 1 in all, and after the     *)
(* (max_retries + 1)-th failed fetch and its 1000ms sleep it returns        *)
(* MaxRetriesExceeded, for every value of max_retries.                      *)
C6_FetchFailuresExhaustRetries ==
    \A t \in active :
        EveryFetchFailed(t) =>
            /\ Sends(t) = 0
            /\ Fetches(t) <= max_retries + 1
            /\ \A i \in Indices(t) : IsFetch(trace[t][i]) =>
                  trace[t][i].attempt = Cardinality({j \in 1..i : IsFetch(trace[t][j])})
            /\ (Fetches(t) = max_retries + 1 /\ trace[t][Len(trace[t])].kind = "query_sleep")
                  => pc[t] \in {"loop", "done"}
            /\ pc[t] = "done" =>
                  /\ Fetches(t) = max_retries + 1
                  /\ QuerySleeps(t) = max_retries + 1
                  /\ result[t] = Err(MaxRetriesExceeded)

C6_Witness ==
    \E t \in active :
        /\ EveryFetchFailed(t)
        /\ max_retries >= 2
        /\ pc[t] = "done"
        /\ Fetches(t) = max_retries + 1
        /\ result[t] = Err(MaxRetriesExceeded)

Last(t) == trace[t][Len(trace[t])]

(* C7: a run returns Ok(sig) only when the last two things it did were a   *)
(* send that returned sig and a confirmation of sig that returned true, in  *)
(* the same attempt; a confirmation that returns false gives                *)
(* ConfirmationError("Transaction was not confirmed"), which the run        *)
(* returns; a confirmation that fails in the transport gives                *)
(* ConfirmationError with the transport's message; neither ends in Ok.      *)
C7_OnlyConfirmedIsSuccess ==
    \A t \in active :
        /\ result[t].kind = "Ok" =>
              /\ Len(trace[t]) >= 2
              /\ Last(t) = Event("confirm_true", 0, attempt[t])
              /\ trace[t][Len(trace[t]) - 1] = Event("send_ok", 0, attempt[t])
              /\ result[t].sig = signature[t]
              /\ signature[t] \in Signatures
        /\ (Len(trace[t]) > 0 /\ Last(t).kind = "confirm_false") =>
              /\ trace[t][Len(trace[t]) - 1].kind = "send_ok"
              /\ err[t] = ConfirmationError(NotConfirmedMsg)
              /\ result[t] = Err(ConfirmationError(NotConfirmedMsg))
        /\ (Len(trace[t]) > 0 /\ Last(t).kind = "confirm_err") =>
              /\ trace[t][Len(trace[t]) - 1].kind = "send_ok"
              /\ err[t] = ConfirmationError(Last(t).val)
              /\ result[t].kind # "Ok"
              /\ result[t].kind = "Err" =>
                    result[t].err \in {ConfirmationError(Last(t).val), MaxRetriesExceeded}

C7_Witness ==
    \E t \in active :
        /\ Len(trace[t]) > 0
        /\ Last(t).kind = "confirm_false"
        /\ attempt[t] >= 2
        /\ result[t] = Err(ConfirmationError(NotConfirmedMsg))

(* C8: every backoff sleep is made before an attempt k >= 2 and lasts       *)
(* 500 * 2^(k-2) ms (500 before attempt 2, 1000 before 3, 2000 before 4);   *)
(* the fetch of attempt 1 is the first thing a run does, with no sleep      *)
(* before it, and the fetch of every attempt k >= 2 comes right after the   *)
(* one backoff sleep of attempt k.                                          *)
C8_BackoffDoubles ==
    \A t \in active : \A i \in Indices(t) :
        /\ trace[t][i].kind = "backoff" =>
              /\ trace[t][i].attempt >= 2
              /\ trace[t][i].val = 500 * 2^(trace[t][i].attempt - 2)
              /\ trace[t][i].attempt = 2 => trace[t][i].val = 500
              /\ trace[t][i].attempt = 3 => trace[t][i].val = 1000
              /\ trace[t][i].attempt = 4 => trace[t][i].val = 2000
        /\ IsFetch(trace[t][i]) =>
              IF trace[t][i].attempt = 1
                THEN i = 1
                ELSE /\ trace[t][i - 1].kind = "backoff"
                     /\ trace[t][i - 1].attempt = trace[t][i].attempt
                     /\ Cardinality({j \in Indices(t) :
                            /\ trace[t][j].kind = "backoff"
                            /\ trace[t][j].attempt = trace[t][i].attempt}) = 1

C8_Witness ==
    \E t \in active : \E i \in Indices(t) :
        /\ trace[t][i] = Event("backoff", 2000, 4)
        /\ i < Len(trace[t])
        /\ IsFetch(trace[t][i + 1])

(* C10: when every fetch succeeded, the first k-1 attempts failed with     *)
(* retriable errors and attempt k sent and was confirmed, the run has      *)
(* returned Ok with the signature of the k-th send, k <= max_retries + 1,   *)
(* after exactly k sends and k-1 backoff sleeps of 500, 1000, ...,          *)
(* 500 * 2^(k-2) ms in that order (max_retries = 3, k = 4: 500, 1000, 2000).*)
SucceededAtAttempt(t, k) ==
    /\ Sends(t) = k
    /\ FetchFailures(t) = 0
    /\ Len(trace[t]) >= 2
    /\ Last(t).kind = "confirm_true"
    /\ trace[t][Len(trace[t]) - 1].kind = "send_ok"
    /\ \A i \in 1..(Len(trace[t]) - 1) :
          /\ trace[t][i].kind # "confirm_true"
          /\ IsFailure(trace[t][i]) => TableRetriable(ErrorOf(trace[t][i]))

C10_SuccessAtAttemptK ==
    \A t \in active : \A k \in 1..(MaxRetries + 3) :
        SucceededAtAttempt(t, k) =>
            /\ k <= max_retries + 1
            /\ pc[t] = "done"
            /\ result[t] = Ok(signature[t])
            /\ signature[t] \in Signatures
            /\ Fetches(t) = k
            /\ QuerySleeps(t) = 0
            /\ BackoffDurations(t) = [i \in 1..(k - 1) |-> 500 * 2^(i - 1)]
            /\ (max_retries = 3 /\ k = 4) => BackoffDurations(t) = <<500, 1000, 2000>>

C10_Witness ==
    \E t \in active :
        /\ max_retries = 3
        /\ SucceededAtAttempt(t, 4)
        /\ \A i \in Indices(t) : IsFailure(trace[t][i]) => trace[t][i] = Event("send_err", PatTimeout, trace[t][i].attempt)
        /\ result[t].kind = "Ok"
        /\ BackoffDurations(t) = <<500, 1000, 2000>>

(* C9: is_retriable_error gives the answer of the classification table on  *)
(* every error: RpcError always retriable; SendError retriable exactly when *)
(* its message was built around "blockhash not found", "timeout", "socket   *)
(* closed", "retry rate limit" or "too many requests"; ConfirmationError    *)
(* exactly when built around "timeout" or "connection closed";              *)
(* MaxRetriesExceeded, InvalidInstruction, InsufficientFunds and Other      *)
(* never.  Near misses (other case, a missing letter or space) and the      *)
(* other kind's patterns are not retriable.                                 *)
ExpectedRetriable(in) ==
    \/ in.tag = "RpcError"
    \/ in.tag = "SendError" /\ in.core \in SendRetriablePatterns
    \/ in.tag = "ConfirmationError" /\ in.core \in ConfirmRetriablePatterns

C9_ClassificationMatchesTable ==
    cls_out # "unset" =>
        /\ cls_out = (IF ExpectedRetriable(cls_in) THEN "retriable" ELSE "fatal")
        /\ (cls_in.tag = "SendError" /\ cls_in.pre = <<>>
              /\ cls_in.core = PatBlockhashNotFound /\ cls_in.suf = SuffixPleaseRetry)
                => cls_out = "retriable"
        /\ (cls_in.tag = "SendError" /\ cls_in.pre = <<>>
              /\ cls_in.core = MsgInsufficientFunds /\ cls_in.suf = <<>>)
                => cls_out = "fatal"
        /\ cls_in.tag \in {"MaxRetriesExceeded", "InvalidInstruction",
                           "InsufficientFunds", "Other"} => cls_out = "fatal"

C9_Witness ==
    /\ cls_out = "retriable"
    /\ cls_in.tag = "ConfirmationError"
    /\ cls_in.pre = PrefixTransport
    /\ cls_in.core = PatConnectionClosed
    /\ cls_in.suf = SuffixPleaseRetry

(* C11: an error a run returns is terminal: MaxRetriesExceeded, or an      *)
(* error the table calls non-retriable; a retriable error is never the     *)
(* result, whatever the RPC calls returned.                                 *)
C11_ReturnedErrorsAreTerminal ==
    \A t \in active :
        result[t].kind = "Err" =>
            \/ result[t].err = MaxRetriesExceeded
            \/ /\ result[t].err.tag \in ErrorTags
               /\ ~TableRetriable(result[t].err)

C11_Witness ==
    \E t \in active :
        /\ result[t] = Err(ConfirmationError(PatSocketClosed))
        /\ Sends(t) >= 2
        /\ \E i \in Indices(t) : trace[t][i] = Event("send_err", PatSocketClosed, 1)

IsSend(ev) == ev.kind \in {"send_ok", "send_err"}

(* C16 as stated: between a failed blockhash fetch and the fetch that      *)
(* retries it there is one sleep of 1000ms and nothing else.                *)
C16_Original_OnlyFixedSleep ==
    \A t \in active : \A i \in Indices(t) :
        (trace[t][i].kind = "fetch_err" /\ NextFetch(t, i) # 0) =>
            /\ NextFetch(t, i) = i + 2
            /\ trace[t][i + 1].kind = "query_sleep"
            /\ trace[t][i + 1].val = 1000

(* C16 amended: between a blockhash fetch that failed under attempt k and  *)
(* the fetch that retries it there are two sleeps: the fixed one of 1000ms  *)
(* and then the exponential backoff of attempt k + 1, 500 * 2^(k-1) ms.     *)
C16_FixedSleepThenBackoff ==
    \A t \in active : \A i \in Indices(t) :
        (trace[t][i].kind = "fetch_err" /\ NextFetch(t, i) # 0) =>
            /\ NextFetch(t, i) = i + 3
            /\ trace[t][i + 1] = Event("query_sleep", 1000, trace[t][i].attempt)
            /\ trace[t][i + 2] = Event("backoff", 500 * 2^(trace[t][i].attempt - 1),
                                       trace[t][i].attempt + 1)

C16_Witness ==
    \E t \in active : \E i \in Indices(t) :
        /\ trace[t][i] = Event("fetch_err", 0, 2)
        /\ NextFetch(t, i) = i + 3
        /\ trace[t][i + 1].val = 1000
        /\ trace[t][i + 2].val = 1000

(* C17 as stated: a run has at most one send accepted.                     *)
C17_Original_AtMostOneAcceptedSend ==
    \A t \in active : Count(t, {"send_ok"}) <= 1

(* C17 amended: a run sends again after an accepted send only when the     *)
(* confirmation call of that send failed with a retriable                   *)
(* ConfirmationError (message containing "timeout" or "connection           *)
(* closed"); after a confirmation that returned true or false, or failed    *)
(* with another message, it never sends again.  At most max_retries + 1     *)
(* sends are accepted.                                                      *)
C17_ResendOnlyAfterRetriableConfirmError ==
    \A t \in active :
        /\ Count(t, {"send_ok"}) <= max_retries + 1
        /\ \A i \in Indices(t) :
              (/\ trace[t][i].kind = "send_ok"
               /\ \E j \in Indices(t) : j > i /\ IsSend(trace[t][j])) =>
                    /\ trace[t][i + 1].kind = "confirm_err"
                    /\ \E p \in ConfirmRetriablePatterns : contains(trace[t][i + 1].val, p)
        /\ \A i \in Indices(t) :
              trace[t][i].kind \in {"confirm_true", "confirm_false"} =>
                    /\ i = Len(trace[t])
                    /\ pc[t] = "done"

C17_Witness ==
    \E t \in active :
        /\ Count(t, {"send_ok"}) >= 2
        /\ result[t].kind = "Ok"
        /\ \E i \in Indices(t) : trace[t][i].kind = "confirm_err"

(* C20: the errors a run returns carry the tag SendError,                  *)
(* ConfirmationError or MaxRetriesExceeded, never RpcError,                 *)
(* InvalidInstruction, InsufficientFunds or Other; a failed blockhash       *)
(* fetch is not returned; a SendError result is the message of the failed   *)
(* send that ended the run, a ConfirmationError result that of the failed   *)
(* or false confirmation that ended it.                                     *)
C20_ReturnedErrorTags ==
    \A t \in active :
        /\ result[t].kind = "Err" =>
              /\ result[t].err.tag \in {"SendError", "ConfirmationError", "MaxRetriesExceeded"}
              /\ result[t].err.tag = "SendError" =>
                    /\ Last(t).kind = "send_err"
                    /\ result[t].err.msg = Last(t).val
              /\ result[t].err.tag = "ConfirmationError" =>
                    /\ Last(t).kind \in {"confirm_err", "confirm_false"}
                    /\ Last(t).kind = "confirm_err" => result[t].err.msg = Last(t).val
                    /\ Last(t).kind = "confirm_false" => result[t].err.msg = NotConfirmedMsg
        /\ (Len(trace[t]) > 0 /\ Last(t).kind = "fetch_err") => result[t] = NoResult

C20_Witness ==
    \E t \in active :
        /\ result[t] = Err(SendError(MsgInsufficientFunds))
        /\ FetchFailures(t) >= 1
        /\ Last(t).kind = "send_err"

(* C12: every send is given the transaction signed in the same iteration  *)
(* with the blockhash the fetch of that iteration returned; the fetch comes *)
(* right before the send, with no sleep between them, and after the         *)
(* backoff sleep of that iteration; a successful fetch is followed by       *)
(* exactly one send, so successful fetches followed by a send are as many   *)
(* as sends.                                                                *)
SentInCurrentIteration(t) ==
    \E i \in Indices(t) : IsSend(trace[t][i]) /\ trace[t][i].attempt = attempt[t]

C15_Original_EmptyIsInvalidInstruction ==
    \A t \in active :
        (/\ instructions[t] = <<>>
         /\ Len(trace[t]) > 0
         /\ Last(t).kind = "send_err"
         /\ result[t].kind = "Err") => result[t].err.tag = "InvalidInstruction"

(* C15 amended: a run called with no instructions whose transaction the    *)
(* ledger rejects at send time gets SendError with the transport's message, *)
(* as for any other transaction: it returns that SendError when the message *)
(* is non-retriable, retries otherwise, and returns MaxRetriesExceeded when *)
(* the retries run out on such a rejection; never InvalidInstruction.       *)
C15_EmptyRejectedIsSendError ==
    \A t \in active :
        (/\ instructions[t] = <<>>
         /\ Len(trace[t]) > 0
         /\ Last(t).kind = "send_err") =>
            /\ err[t].tag = "SendError"
            /\ err[t].msg = Last(t).val
            /\ ~TableRetriable(err[t]) => result[t] = Err(err[t])
            /\ TableRetriable(err[t]) => result[t] \in {NoResult, Err(MaxRetriesExceeded)}
            /\ result[t].err.tag # "InvalidInstruction"

C15_Witness ==
    \E t \in active :
        /\ instructions[t] = <<>>
        /\ Len(trace[t]) > 0
        /\ Last(t).kind = "send_err"
        /\ sent[t] = Sign(<<>>, fetched[t])
        /\ result[t].kind = "Err"
        /\ result[t].err.tag = "SendError"
        /\ result[t].err.msg = MsgInsufficientFunds

(* C13: every get_balance call makes exactly one get_balance RPC call, for *)
(* the account it was given, and nothing else (no second call, no sleep);   *)
(* it returns the balance the RPC call answered, unchanged, or RpcError     *)
(* with the message of the transport failure.                               *)
C13_BalanceSingleAttempt ==
    /\ Len(bal_rpc) = Len(bal_results)
    /\ \A i \in 1..Len(bal_results) :
          /\ i <= Len(bal_rpc)
          /\ bal_rpc[i].call = "get_balance"
          /\ bal_rpc[i].pubkey = bal_results[i].pubkey
          /\ bal_rpc[i].answer.ok =>
                /\ bal_results[i].result = OkBalance(bal_rpc[i].answer.value)
                /\ bal_results[i].result.value = client_balance[bal_results[i].pubkey]
          /\ ~bal_rpc[i].answer.ok =>
                /\ bal_results[i].result.kind = "Err"
                /\ bal_results[i].result.err.tag = "RpcError"
                /\ bal_results[i].result.err.msg = bal_rpc[i].answer.msg

C13_Witness ==
    /\ Len(bal_results) = 2
    /\ bal_results[1].result = ErrBalance(RpcError(PatTimeout))
    /\ bal_results[2].result = OkBalance(1000000)
    /\ bal_results[1].pubkey = bal_results[2].pubkey

(* What one call owns: the locals of its submit_transaction future *)
RunState(t) ==
    <<pc[t], attempt[t], recent_blockhash[t], tx[t], fetched[t], sent[t], signature[t],
      err[t], result[t], trace[t], instructions[t]>>

(* C14: with two submit_transaction calls interleaved on one service, a    *)
(* step of one call leaves the other call's attempt counter, backoff       *)
(* sleeps, outcome and all its other locals as they were, and never writes *)
(* max_retries; each call sleeps the backoff of its own attempt number and *)
(* sends at most max_retries + 1 times.                                    *)
C14_RunsAreIndependent ==
    /\ [][/\ max_retries' = max_retries
          /\ \E t \in Tasks : \A u \in Tasks \ {t} : RunState(u)' = RunState(u)]_vars
    /\ [](\A t \in active :
             /\ Sends(t) <= max_retries + 1
             /\ attempt[t] <= max_retries + 2
             /\ \A i \in Indices(t) :
                   trace[t][i].kind = "backoff" =>
                       trace[t][i].val = backoff(trace[t][i].attempt))

C14_Witness ==
    /\ active = Tasks
    /\ pc[1] = "send" /\ attempt[1] = 1
    /\ pc[2] = "confirm" /\ attempt[2] = 2
    /\ BackoffSleeps(1) = 0 /\ BackoffSleeps(2) = 1
    /\ Sends(2) = 2

(* x > y in u64 *)
GreaterU64(x, y) ==
    \E i \in 1..4 : x[i] > y[i] /\ \A j \in (i + 1)..4 : x[j] = y[j]

(* C18: the backoff 500 * 2^(k-2) never overflows 64 bits, so every backoff *)
(* after the first is double the one before it and larger than it.         *)
C18_Original_BackoffNeverOverflows ==
    /\ wide.overflow # "u64"
    /\ wide.sleeps >= 2 =>
          /\ wide.backoff = MulU64(2, wide.previous).value
          /\ GreaterU64(wide.backoff, wide.previous)

(* C19: max_retries + 1 never overflows 32 bits and MaxRetriesExceeded is  *)
(* returned only after at least one blockhash fetch; with max_retries = 0  *)
(* a finished call has made one attempt and slept no backoff.              *)
C19_Original_BoundNeverOverflows ==
    /\ wide.overflow # "u32"
    /\ wide.pc # "panicked"
    /\ wide.result = "MaxRetriesExceeded" => wide.fetches >= 1
    /\ (wide.max_retries = ToU32(0) /\ wide.pc = "done") =>
          /\ wide.fetches = 1
          /\ wide.sleeps = 0

====
